---------------------------- MODULE Spec2Model ----------------------------
(***************************************************************************)
(* A model of the podocyte profiler (src/podocytes/main.py).               *)
(*                                                                         *)
(* Four specifications share the module's variables:                       *)
(*   SpecCrop    crop_region_of_interest applied to bounded inputs         *)
(*   SpecFilter  filter_by_size applied to bounded label images            *)
(*   SpecWshed   marker_controlled_watershed applied to bounded ROIs       *)
(*   Spec        the batch loop of main(): files, series, glomeruli        *)
(* A specification leaves the variables of the other three at their idle   *)
(* values.                                                                 *)
(*                                                                         *)
(* Conventions.  An n-dimensional numpy array is a record                  *)
(* [shape |-> <<n1, .., nk>>, data |-> f] with f a function on the index   *)
(* tuples <<i1, .., ik>>, 0 <= id < nd.  A float is an exact rational      *)
(* <<numerator, denominator>>; <<0, 0>> stands for NaN (the mean of an     *)
(* empty slice).  Library calls (numpy, skimage, pandas, pims) are         *)
(* modelled by their documented behaviour.                                 *)
(***************************************************************************)
EXTENDS Integers, Sequences, FiniteSets, TLC

VARIABLES
    \* ---- crop_region_of_interest (SpecCrop)
    cpc,            \* "idle" | "call" | "done"
    image,          \* argument: the image
    bbox,           \* argument: <<min_1..min_k, max_1..max_k>>, half-open
    margin,         \* argument
    pad_mode,       \* argument: "mean" | "zeros"
    roi_image       \* the value returned (or the fault raised)

cropVars == <<cpc, image, bbox, margin, pad_mode, roi_image>>

VARIABLES
    \* ---- filter_by_size (SpecFilter)
    fpc,            \* "idle" | "call" | "again" | "done"
    label_image,    \* argument: the label image
    min_diameter,   \* argument
    max_diameter,   \* argument
    regions,        \* the list returned
    wide_min,       \* the arguments of a second call on the same image,
    wide_max,       \*   with a range that contains the first one
    regions_wide    \* the list the second call returned

filterVars == <<fpc, label_image, min_diameter, max_diameter, regions,
                wide_min, wide_max, regions_wide>>

VARIABLES
    \* ---- marker_controlled_watershed (SpecWshed)
    wpc,            \* "idle" | "call" | "done"
    roi_shape,      \* grayscale_image.shape
    marker_coords,  \* argument: the rows <<z, y, x, sigma>> blob_dog found
    seeds,          \* local: the boolean seed image after line 560
    markers,        \* local: label(seeds)
    flooded,        \* local: what watershed() returned, before line 562
    wshed           \* the label image returned

wshedVars == <<wpc, roi_shape, marker_coords, seeds, markers, flooded, wshed>>

VARIABLES
    \* ---- denoise_image (SpecDenoise)
    dpc,            \* "idle" | "call" | "done"
    channel,        \* argument: the image, as its number of axes and its
                    \*   metadata (axes, mpp, mppZ)
    sigma,          \* local: the vector of line 265
    denoised        \* the value returned (or the fault raised)

denoiseVars == <<dpc, channel, sigma, denoised>>

VARIABLES
    \* ---- main (Spec)
    pc,                 \* where main() stands: "idle" | "file" (47) |
                        \*   "series" (50) | "glom" (64) | "stamp" (83) |
                        \*   "done" | "fault"
    filelist,           \* what find_files returned: the files, in order
    file_i,             \* position of the for loop of line 47 (from 1)
    im_series_num,      \* position of the for loop of line 50 (from 0)
    series_content,     \* the series pims decoded (images[0])
    voxel_volume,
    glom_regions,
    glom_pos,           \* position of the for loop of line 64 (from 1)
    glom_index,
    centroid_offset,    \* as find_podocytes last returned it
    detailed_stats,     \* the rows of the DataFrame detailed_stats
    produced_by,        \* for each row of detailed_stats, the file, series,
                        \*   glomerulus and podocyte region it was made from
    csv_detailed,       \* contents of the detailed-stats file on disk
    summary_stats,
    csv_summary,        \* contents of the summary-stats file on disk
    total_gloms_counted,
    fault               \* the exception that ended main(), if any

mainVars == <<pc, filelist, file_i, im_series_num, series_content,
              voxel_volume, glom_regions, glom_pos, glom_index,
              centroid_offset, detailed_stats, produced_by, csv_detailed,
              summary_stats, csv_summary, total_gloms_counted, fault>>

vars == <<cropVars, filterVars, wshedVars, denoiseVars, mainVars>>

----------------------------------------------------------------------------
(* Arithmetic helpers *)

Abs(x) == IF x < 0 THEN -x ELSE x

Min2(a, b) == IF a < b THEN a ELSE b

Max2(a, b) == IF a > b THEN a ELSE b

RECURSIVE SumOver(_, _)
SumOver(S, f) ==
    IF S = {} THEN 0
    ELSE LET x == CHOOSE y \in S : TRUE
         IN  f[x] + SumOver(S \ {x}, f)

RECURSIVE Gcd(_, _)
Gcd(a, b) == IF b = 0 THEN a ELSE Gcd(b, a % b)

\* The float a/b as an exact rational in lowest terms; b = 0 is NaN.
Rat(a, b) ==
    IF b = 0 THEN <<0, 0>>
    ELSE LET g == Gcd(Abs(a), Abs(b))
             s == IF b < 0 THEN -1 ELSE 1
         IN  <<(s * a) \div g, (s * b) \div g>>

RatAdd(q, k) == Rat(q[1] + k * q[2], q[2])

IsNaN(q) == q[2] = 0

----------------------------------------------------------------------------
(* numpy arrays *)

Null == [kind |-> "none"]

\* The index tuples of an array of the given shape.
RECURSIVE IndexSet(_)
IndexSet(shape) ==
    IF shape = <<>> THEN {<<>>}
    ELSE {Append(p, i) : p \in IndexSet(SubSeq(shape, 1, Len(shape) - 1)),
                         i \in 0..(shape[Len(shape)] - 1)}

\* Python's slice(a, b, 1) on an axis of length n: the first index and the
\* index after the last one, negative bounds counted from the end.
PySlice(a, b, n) ==
    LET lo == IF a < 0 THEN Max2(a + n, 0) ELSE Min2(a, n)
        hi == IF b < 0 THEN Max2(b + n, 0) ELSE Min2(b, n)
    IN  <<lo, Max2(hi, lo)>>

----------------------------------------------------------------------------
(* crop_region_of_interest, main.py 194-241 *)

\* bbox[:ndims] and bbox[ndims:] moved outwards by the margin (221, 222).
bbox_min_plus_margin(bb, mg, ndims) == [d \in 1..ndims |-> bb[d] - mg]

bbox_max_plus_margin(bb, mg, ndims) == [d \in 1..ndims |-> bb[ndims + d] + mg]

\* ndarray.clip(min=0) and ndarray.clip(max=max_image_size) (223, 224).
image_min_coords(bb, mg, ndims) ==
    [d \in 1..ndims |-> Max2(bbox_min_plus_margin(bb, mg, ndims)[d], 0)]

image_max_coords(bb, mg, shape) ==
    [d \in 1..Len(shape) |->
        Min2(bbox_max_plus_margin(bb, mg, Len(shape))[d], shape[d])]

\* A plausible slip: the size of the clipped window instead of the expanded one.
max_roi_size_clipped(bb, mg, shape) ==
    [d \in 1..Len(shape) |->
        Abs(image_max_coords(bb, mg, shape)[d]
            - image_min_coords(bb, mg, Len(shape))[d])]

\* The shape of the output: the unclipped expanded window (225-227).
max_roi_size(bb, mg, shape) ==
    [d \in 1..Len(shape) |->
        Abs(bbox_max_plus_margin(bb, mg, Len(shape))[d]
            - bbox_min_plus_margin(bb, mg, Len(shape))[d])]

\* A plausible slip: the valid data pasted at the origin of the output.
roi_min_coord_origin(bb, mg, ndims) == [d \in 1..ndims |-> 0]

\* Where the valid data starts inside the output (228).
roi_min_coord(bb, mg, ndims) ==
    [d \in 1..ndims |->
        Abs(image_min_coords(bb, mg, ndims)[d]
            - bbox_min_plus_margin(bb, mg, ndims)[d])]

\* Where the valid data ends inside the output (229).
roi_max_coord(bb, mg, shape) ==
    [d \in 1..Len(shape) |->
        max_roi_size(bb, mg, shape)[d]
        - Abs(bbox_max_plus_margin(bb, mg, Len(shape))[d]
              - image_max_coords(bb, mg, shape)[d])]

\* np.mean of a view given by per-axis index ranges <<lo, hi>> of an array.
MeanOfView(arr, ranges) ==
    LET k   == Len(arr.shape)
        sel == {p \in IndexSet(arr.shape) :
                   \A d \in 1..k : ranges[d][1] <= p[d] /\ p[d] < ranges[d][2]}
    IN  IF sel = {} THEN <<0, 0>>
        ELSE <<SumOver(sel, arr.data), Cardinality(sel)>>

crop_region_of_interest(img, bb, mg, mode) ==
    LET ndims   == Len(img.shape)
        imin    == image_min_coords(bb, mg, ndims)
        imax    == image_max_coords(bb, mg, img.shape)
        size    == max_roi_size(bb, mg, img.shape)
        rmin    == roi_min_coord(bb, mg, ndims)
        rmax    == roi_max_coord(bb, mg, img.shape)
        \* image_slicer and roi_slicer as index ranges (230-233)
        islice  == [d \in 1..ndims |-> PySlice(imin[d], imax[d], img.shape[d])]
        rslice  == [d \in 1..ndims |-> PySlice(rmin[d], rmax[d], size[d])]
        ilen    == [d \in 1..ndims |-> islice[d][2] - islice[d][1]]
        rlen    == [d \in 1..ndims |-> rslice[d][2] - rslice[d][1]]
        fill    == IF mode = "zeros" THEN <<0, 1>> ELSE MeanOfView(img, islice)
        \* numpy broadcasts a source axis of length 1, and nothing else
        fits    == \A d \in 1..ndims : ilen[d] = rlen[d] \/ ilen[d] = 1
        inside(p) == \A d \in 1..ndims :
                        rslice[d][1] <= p[d] /\ p[d] < rslice[d][2]
        src(p)  == [d \in 1..ndims |->
                       islice[d][1]
                       + (IF ilen[d] = rlen[d] THEN p[d] - rslice[d][1] ELSE 0)]
    IN  IF mode \notin {"zeros", "mean"} THEN [kind |-> "ValueError"]
        ELSE IF ~fits THEN [kind |-> "ValueError"]
        ELSE [kind  |-> "array",
              shape |-> size,
              data  |-> [p \in IndexSet(size) |->
                            IF inside(p) THEN <<img.data[src(p)], 1>>
                            ELSE fill]]

\* ---- bounded inputs
CropDims == {1, 2}
MaxSize == 3
MaxMargin == 2
MaxBase == 1

Shapes(k, n) == [1..k -> 1..n]

\* An image whose voxels all differ: base + the voxel's raster position.
RampImage(shape, base) ==
    [kind  |-> "array",
     shape |-> shape,
     data  |-> [p \in IndexSet(shape) |->
                   base + SumOver(1..Len(shape),
                                  [d \in 1..Len(shape) |->
                                      p[d] * (MaxSize + 1) ^ (Len(shape) - d)])]]

\* Bounding boxes inside an image: 0 <= min <= max <= size on every axis.
BBoxes(shape) ==
    LET k == Len(shape)
        m == CHOOSE x \in {shape[d] : d \in 1..k} : \A d \in 1..k : shape[d] <= x
    IN  {b \in [1..(2 * k) -> 0..m] :
            \A d \in 1..k : b[d] <= b[k + d] /\ b[k + d] <= shape[d]}

CropIdle ==
    /\ cpc = "idle" /\ image = Null /\ bbox = <<>> /\ margin = 0
    /\ pad_mode = "mean" /\ roi_image = Null

FilterIdle ==
    /\ fpc = "idle" /\ label_image = Null /\ min_diameter = 0
    /\ max_diameter = 0 /\ regions = <<>> /\ wide_min = 0 /\ wide_max = 0
    /\ regions_wide = <<>>

WshedIdle ==
    /\ wpc = "idle" /\ roi_shape = <<>> /\ marker_coords = {} /\ seeds = Null
    /\ markers = Null /\ flooded = Null /\ wshed = Null

DenoiseIdle ==
    /\ dpc = "idle" /\ channel = Null /\ sigma = <<>> /\ denoised = Null

MainIdle ==
    /\ pc = "idle" /\ filelist = <<>> /\ file_i = 0 /\ im_series_num = 0
    /\ series_content = Null /\ voxel_volume = 0 /\ glom_regions = <<>>
    /\ glom_pos = 0 /\ glom_index = 0 /\ centroid_offset = <<>>
    /\ detailed_stats = <<>> /\ produced_by = <<>> /\ csv_detailed = Null
    /\ summary_stats = Null /\ csv_summary = Null
    /\ total_gloms_counted = 0 /\ fault = "none"

CropInit ==
    /\ cpc = "call"
    /\ \E k \in CropDims, base \in 0..MaxBase :
       \E shape \in Shapes(k, MaxSize) :
          /\ image = RampImage(shape, base)
          /\ bbox \in BBoxes(shape)
    /\ margin \in 0..MaxMargin
    /\ pad_mode \in {"mean", "zeros"}
    /\ roi_image = Null
    /\ FilterIdle /\ WshedIdle /\ DenoiseIdle /\ MainIdle

Crop ==
    /\ cpc = "call"
    /\ roi_image' = crop_region_of_interest(image, bbox, margin, pad_mode)
    /\ cpc' = "done"
    /\ UNCHANGED <<image, bbox, margin, pad_mode>>
    /\ UNCHANGED <<filterVars, wshedVars, denoiseVars, mainVars>>

CropNext == Crop

SpecCrop == CropInit /\ [][CropNext]_vars

\* ---- claims about crop_region_of_interest

\* The image voxels of the expanded window that lie inside the image.
ValidWindow ==
    {q \in IndexSet(image.shape) :
        \A d \in 1..Len(image.shape) :
            /\ bbox[d] - margin <= q[d]
            /\ q[d] < bbox[Len(image.shape) + d] + margin}

ClippedLow(d) == bbox[d] - margin < 0

ClippedHigh(d) == bbox[Len(image.shape) + d] + margin > image.shape[d]

\* C1: the array returned has, on every axis, the size
\* (bbox_max - bbox_min) + 2*margin, wherever the window lies in the image.
C1_OutputShape ==
    cpc = "done" =>
        /\ roi_image.kind = "array"
        /\ Len(roi_image.shape) = Len(image.shape)
        /\ \A d \in 1..Len(image.shape) :
              roi_image.shape[d]
                  = (bbox[Len(image.shape) + d] - bbox[d]) + 2 * margin
        /\ DOMAIN roi_image.data = IndexSet(roi_image.shape)

\* A crop whose window crosses the boundary on both sides of an axis,
\* around a bounding box that is not empty.
C1_Witness ==
    /\ cpc = "done"
    /\ roi_image.kind = "array"
    /\ margin > 0
    /\ \E d \in 1..Len(image.shape) :
          ClippedLow(d) /\ ClippedHigh(d) /\ bbox[d] < bbox[Len(image.shape) + d]

\* C2: the output voxel at p is the image voxel at p + (bbox_min - margin)
\* when that lies inside the image, and otherwise the mean of the clipped
\* valid window ('mean') or 0 ('zeros').
C2_OutputContents ==
    cpc = "done" =>
        /\ roi_image.kind = "array"
        /\ \A p \in DOMAIN roi_image.data :
              LET k == Len(image.shape)
                  q == [d \in 1..k |-> p[d] + (bbox[d] - margin)]
                  v == roi_image.data[p]
              IN  IF q \in IndexSet(image.shape)
                  THEN v = <<image.data[q], 1>>
                  ELSE IF pad_mode = "zeros"
                  THEN v = <<0, 1>>
                  ELSE /\ ValidWindow # {}
                       /\ v[2] # 0
                       /\ v[1] * Cardinality(ValidWindow)
                              = SumOver(ValidWindow, image.data) * v[2]

\* A 'mean' crop clipped at the low side of one axis and the high side of
\* another, holding both copied and padded voxels.
C2_Witness ==
    /\ cpc = "done"
    /\ roi_image.kind = "array"
    /\ pad_mode = "mean"
    /\ Len(image.shape) = 2
    /\ ClippedLow(1) /\ ~ClippedHigh(1)
    /\ ClippedHigh(2) /\ ~ClippedLow(2)
    /\ \E p, r \in DOMAIN roi_image.data :
          /\ [d \in 1..2 |-> p[d] + (bbox[d] - margin)] \in IndexSet(image.shape)
          /\ [d \in 1..2 |-> r[d] + (bbox[d] - margin)] \notin IndexSet(image.shape)
          /\ roi_image.data[p] # roi_image.data[r]

----------------------------------------------------------------------------
(* skimage.measure.regionprops and filter_by_size, main.py 270-297 *)

\* Fixed-point resolution of a diameter: DiamScale units to the voxel.
DiamScale == 10

\* RegionProperties.equivalent_diameter of a 3-D region, (6*area/pi)^(1/3),
\* rounded down to 1/DiamScale voxel, with pi taken as 355/113.
EquivDiam(area) ==
    CHOOSE e \in 0..(2 * DiamScale * (area + 1)) :
        /\ 355 * e * e * e <= 6 * area * 113 * DiamScale * DiamScale * DiamScale
        /\ 355 * (e + 1) * (e + 1) * (e + 1)
               > 6 * area * 113 * DiamScale * DiamScale * DiamScale

SetToSortedSeq(S) ==
    LET n == Cardinality(S)
    IN  [i \in 1..n |->
            CHOOSE x \in S : Cardinality({y \in S : y < x}) = i - 1]

\* The properties regionprops measures for one region, given its label and
\* its voxels.  The regions of the model are too thin to enclose a hole, so
\* that the filled area is the area.
RegionFromVoxels(l, vox, k) ==
    LET lo(d) == CHOOSE x \in {p[d] : p \in vox} : \A p \in vox : x <= p[d]
        hi(d) == CHOOSE x \in {p[d] : p \in vox} : \A p \in vox : x >= p[d]
    IN  [label               |-> l,
         area                |-> Cardinality(vox),
         filled_area         |-> Cardinality(vox),
         bbox                |-> [i \in 1..(2 * k) |->
                                     IF i <= k THEN lo(i) ELSE hi(i - k) + 1],
         centroid            |-> [d \in 1..k |->
                                     Rat(SumOver(vox, [p \in vox |-> p[d]]),
                                         Cardinality(vox))],
         equivalent_diameter |-> EquivDiam(Cardinality(vox))]

RegionOf(lab, l) ==
    RegionFromVoxels(l, {p \in IndexSet(lab.shape) : lab.data[p] = l},
                     Len(lab.shape))

\* regionprops(label_image): one region per label that occurs, label 0
\* left out, in ascending order of the labels.
regionprops(lab) ==
    LET ls == SetToSortedSeq({lab.data[p] : p \in IndexSet(lab.shape)} \ {0})
    IN  [i \in 1..Len(ls) |-> RegionOf(lab, ls[i])]

\* A plausible slip: the upper bound taken exclusive.
size_in_range_strict(region, min_d, max_d) ==
    /\ region.equivalent_diameter >= min_d
    /\ region.equivalent_diameter < max_d

\* A plausible slip: the first comparison turned around.
size_in_range_flipped(region, min_d, max_d) ==
    /\ region.equivalent_diameter <= min_d
    /\ region.equivalent_diameter <= max_d

\* The test of lines 294-295.
size_in_range(region, min_d, max_d) ==
    /\ region.equivalent_diameter >= min_d
    /\ region.equivalent_diameter <= max_d

RECURSIVE KeepInRange(_, _, _)
KeepInRange(rs, min_d, max_d) ==
    IF rs = <<>> THEN <<>>
    ELSE (IF size_in_range(Head(rs), min_d, max_d) THEN <<Head(rs)>> ELSE <<>>)
         \o KeepInRange(Tail(rs), min_d, max_d)

filter_by_size(lab, min_d, max_d) == KeepInRange(regionprops(lab), min_d, max_d)

\* ---- bounded inputs
MaxLabel == 2

LabelShape == <<1, 2, 2>>

LabelImages ==
    {[kind |-> "array", shape |-> LabelShape, data |-> f] :
        f \in [IndexSet(LabelShape) -> 0..MaxLabel]}

\* Diameters at, between and beyond the diameters the regions can have.
Diameters ==
    {0, EquivDiam(1), EquivDiam(2), EquivDiam(2) + 1, EquivDiam(4) + DiamScale}

FilterInit ==
    /\ fpc = "call"
    /\ label_image \in LabelImages
    /\ min_diameter \in Diameters
    /\ max_diameter \in Diameters
    /\ wide_min \in {a \in Diameters : a <= min_diameter}
    /\ wide_max \in {b \in Diameters : max_diameter <= b}
    /\ regions = <<>>
    /\ regions_wide = <<>>
    /\ CropIdle /\ WshedIdle /\ DenoiseIdle /\ MainIdle

FilterBySize ==
    /\ fpc = "call"
    /\ regions' = filter_by_size(label_image, min_diameter, max_diameter)
    /\ fpc' = "again"
    /\ UNCHANGED <<label_image, min_diameter, max_diameter, wide_min, wide_max,
                   regions_wide>>
    /\ UNCHANGED <<cropVars, wshedVars, denoiseVars, mainVars>>

FilterBySizeWide ==
    /\ fpc = "again"
    /\ regions_wide' = filter_by_size(label_image, wide_min, wide_max)
    /\ fpc' = "done"
    /\ UNCHANGED <<label_image, min_diameter, max_diameter, wide_min, wide_max,
                   regions>>
    /\ UNCHANGED <<cropVars, wshedVars, denoiseVars, mainVars>>

FilterNext == FilterBySize \/ FilterBySizeWide

SpecFilter == FilterInit /\ [][FilterNext]_vars

\* ---- claims about filter_by_size

LabelsOf(rs) == [i \in 1..Len(rs) |-> rs[i].label]

VoxelsOf(l) == {p \in IndexSet(label_image.shape) : label_image.data[p] = l}

\* C7: the list returned holds exactly the regions of the labels, 0 left
\* out, whose equivalent diameter d has min_diameter <= d <= max_diameter,
\* both ends included, in ascending order of the labels.
C7_FilterExact ==
    fpc \in {"again", "done"} =>
        /\ \A i \in 1..Len(regions) :
              /\ regions[i].label # 0
              /\ VoxelsOf(regions[i].label) # {}
              /\ regions[i] = RegionOf(label_image, regions[i].label)
              /\ min_diameter <= EquivDiam(Cardinality(VoxelsOf(regions[i].label)))
              /\ EquivDiam(Cardinality(VoxelsOf(regions[i].label))) <= max_diameter
        /\ \A l \in 1..MaxLabel :
              (/\ VoxelsOf(l) # {}
               /\ min_diameter <= EquivDiam(Cardinality(VoxelsOf(l)))
               /\ EquivDiam(Cardinality(VoxelsOf(l))) <= max_diameter)
                  => \E i \in 1..Len(regions) : regions[i].label = l
        /\ \A i, j \in 1..Len(regions) :
              i < j => regions[i].label < regions[j].label

\* A call that keeps a region whose diameter is max_diameter itself and one
\* whose diameter is min_diameter itself, and drops a region.
C7_Witness ==
    /\ fpc = "done"
    /\ Len(regions) = 2
    /\ regions[1].label = 1 /\ regions[2].label = 2
    /\ \E i \in 1..2 : regions[i].equivalent_diameter = max_diameter
    /\ \E i \in 1..2 : regions[i].equivalent_diameter = min_diameter
    /\ min_diameter < max_diameter

\* Whether s is t with some elements left out, the rest in t's order.
RECURSIVE IsSubSeq(_, _)
IsSubSeq(s, t) ==
    IF s = <<>> THEN TRUE
    ELSE IF t = <<>> THEN FALSE
    ELSE IF Head(s) = Head(t) THEN IsSubSeq(Tail(s), Tail(t))
    ELSE IsSubSeq(s, Tail(t))

\* C8: with a' <= a and b <= b', every region filter_by_size(L, a, b) keeps
\* is kept by filter_by_size(L, a', b'), in the same relative order.
C8_FilterMonotone ==
    fpc = "done" => IsSubSeq(regions, regions_wide)

\* A widening that adds a region to a non-empty result.
C8_Witness ==
    /\ fpc = "done"
    /\ Len(regions) >= 1
    /\ Len(regions_wide) > Len(regions)
    /\ wide_min < min_diameter
    /\ max_diameter < wide_max

----------------------------------------------------------------------------
(* blob_dog_image and marker_controlled_watershed, main.py 98-118, 542-563 *)

\* blob_map of lines 115-118: True at the integer coordinates of each blob.
blob_dog_image(blobs, image_shape) ==
    [kind  |-> "array",
     shape |-> image_shape,
     data  |-> [p \in IndexSet(image_shape) |->
                   \E blob \in blobs :
                       p = <<blob[1], blob[2], blob[3]>>]]

\* np.max of a boolean array, as the integer numpy compares and adds it as.
NpMaxBool(arr) == IF \E p \in DOMAIN arr.data : arr.data[p] THEN 1 ELSE 0

\* seeds[0] = np.max(seeds) + 1 (560): the number is stored into a boolean
\* array, so that every voxel of first-axis index 0 becomes bool(max + 1).
SeedBackground(arr) ==
    [arr EXCEPT !.data =
        [p \in DOMAIN arr.data |->
            IF p[1] = 0 THEN (NpMaxBool(arr) + 1) # 0 ELSE arr.data[p]]]

\* Voxels that touch by a face, an edge or a corner (label's default, full
\* connectivity).
Adjacent(p, q) ==
    /\ p # q
    /\ \A d \in 1..Len(p) : Abs(p[d] - q[d]) <= 1

RECURSIVE Component(_, _)
Component(S, C) ==
    LET more == {q \in S \ C : \E p \in C : Adjacent(p, q)}
    IN  IF more = {} THEN C ELSE Component(S, C \cup more)

\* The position of a voxel in the raster (C order) scan of an array.
RECURSIVE Stride(_, _)
Stride(shape, d) ==
    IF d >= Len(shape) THEN 1 ELSE shape[d + 1] * Stride(shape, d + 1)

RasterIndex(p, shape) ==
    SumOver(1..Len(shape), [d \in 1..Len(shape) |-> p[d] * Stride(shape, d)])

\* skimage.measure.label of a boolean image: the connected components of
\* the True voxels, numbered from 1 in the order the raster scan meets them.
label(arr) ==
    LET fg     == {p \in DOMAIN arr.data : arr.data[p]}
        rank   == [p \in fg |-> RasterIndex(p, arr.shape)]
        \* the raster position of the first voxel of p's component
        first  == [p \in fg |->
                      LET C == Component(fg, {p})
                      IN  CHOOSE i \in {rank[q] : q \in C} :
                              \A q \in C : i <= rank[q]]
        firsts == {first[p] : p \in fg}
    IN  [kind  |-> "array",
         shape |-> arr.shape,
         data  |-> [p \in DOMAIN arr.data |->
                       IF ~arr.data[p] THEN 0
                       ELSE Cardinality({i \in firsts : i <= first[p]})]]

\* What skimage's watershed may return for a marker image: every marker
\* voxel keeps its id and every other voxel takes the id of the marker whose
\* basin reaches it, which the elevation (the gradient image) decides.
WatershedOutcomes(mk) ==
    LET ids  == {mk.data[p] : p \in DOMAIN mk.data} \ {0}
        free == {p \in DOMAIN mk.data : mk.data[p] = 0}
    IN  {[kind  |-> "array",
          shape |-> mk.shape,
          data  |-> [p \in DOMAIN mk.data |->
                        IF p \in free THEN g[p] ELSE mk.data[p]]] :
            g \in [free -> ids]}

\* A plausible slip: the highest marker id taken for the background's.
background_value_last(sd) ==
    LET mk == label(sd)
    IN  CHOOSE m \in {mk.data[p] : p \in DOMAIN mk.data} :
            \A p \in DOMAIN mk.data : mk.data[p] <= m

\* np.max(seeds) of line 562, the value the output is compared with.
background_value(sd) == NpMaxBool(sd)

\* wshed[wshed == np.max(seeds)] = 0 (562).
ResetBackground(ws, sd) ==
    [ws EXCEPT !.data =
        [p \in DOMAIN ws.data |->
            IF ws.data[p] = background_value(sd) THEN 0 ELSE ws.data[p]]]

\* ---- bounded inputs
MaxSeeds == 2

RoiShapes == {<<3, 1, 3>>, <<4, 1, 2>>}

BlobRows(shape) == {<<p[1], p[2], p[3], 1>> : p \in IndexSet(shape)}

WshedInit ==
    /\ wpc = "call"
    /\ roi_shape \in RoiShapes
    /\ marker_coords \in {B \in SUBSET BlobRows(roi_shape) :
                             Cardinality(B) <= MaxSeeds}
    /\ seeds = Null /\ markers = Null /\ flooded = Null /\ wshed = Null
    /\ CropIdle /\ FilterIdle /\ DenoiseIdle /\ MainIdle

MarkerControlledWatershed ==
    /\ wpc = "call"
    /\ seeds' = SeedBackground(blob_dog_image(marker_coords, roi_shape))
    /\ markers' = label(seeds')
    /\ flooded' \in WatershedOutcomes(markers')
    /\ wshed' = ResetBackground(flooded', seeds')
    /\ wpc' = "done"
    /\ UNCHANGED <<roi_shape, marker_coords>>
    /\ UNCHANGED <<cropVars, filterVars, denoiseVars, mainVars>>

WshedNext == MarkerControlledWatershed

SpecWshed == WshedInit /\ [][WshedNext]_vars

\* ---- claims about marker_controlled_watershed

Origin3 == <<0, 0, 0>>

\* The ids label() gave to the components that hold no voxel of first-axis
\* index 0: the markers that come from seed coordinates alone.
SeedMarkerIds ==
    {markers.data[p] : p \in {q \in DOMAIN markers.data : seeds.data[q]}}
        \ {markers.data[Origin3]}

\* C6: the label image returned never holds the id of the background marker
\* injected at first-axis index 0; what that marker flooded is 0, and every
\* other id is the id of a seed marker.
C6_NoBackgroundId ==
    wpc = "done" =>
        LET bg  == markers.data[Origin3]
            ids == SeedMarkerIds
        IN  /\ bg # 0
            /\ \A p \in DOMAIN wshed.data :
                  /\ wshed.data[p] # bg
                  /\ flooded.data[p] = bg => wshed.data[p] = 0
                  /\ wshed.data[p] # 0 =>
                        /\ wshed.data[p] \in ids
                        /\ wshed.data[p] = flooded.data[p]

\* A segmentation with two seed markers besides the background's, both of
\* which flooded voxels, and one with no seed at all.
C6_Witness ==
    /\ wpc = "done"
    /\ Cardinality(SeedMarkerIds) = 2
    /\ \A m \in SeedMarkerIds :
          \E p \in DOMAIN wshed.data : wshed.data[p] = m /\ ~seeds.data[p]
    /\ \E p \in DOMAIN wshed.data :
          flooded.data[p] = markers.data[Origin3] /\ p[1] # 0

----------------------------------------------------------------------------
(* denoise_image, main.py 240-267 *)

\* The loop of lines 259-264: an entry for each 'x', 'y' or 'z' of the
\* axis descriptor, in its order; the if / elif has no else, so any other
\* label adds no entry.
RECURSIVE voxel_dimensions(_)
voxel_dimensions(metadata) ==
    IF metadata.axes = <<>> THEN <<>>
    ELSE LET i    == Head(metadata.axes)
             rest == voxel_dimensions(
                         [metadata EXCEPT !.axes = Tail(metadata.axes)])
         IN  IF i = "x" \/ i = "y" THEN <<metadata.mpp>> \o rest
             ELSE IF i = "z" THEN <<metadata.mppZ>> \o rest
             ELSE rest

\* np.divide(xy_pixel_size, voxel_dimensions) (265), elementwise.
np_divide(xy_pixel_size, dims) ==
    [i \in 1..Len(dims) |-> Rat(xy_pixel_size, dims[i])]

\* skimage.filters.gaussian(image, sigma=sigma) (266): scipy.ndimage takes
\* a sigma sequence only of the length of the image's rank, and raises
\* RuntimeError otherwise.  The smoothed values are not modelled, only the
\* sigma they were smoothed with.
gaussian(img, sg) ==
    IF Len(sg) = img.ndim
    THEN [kind |-> "array", ndim |-> img.ndim, sigma |-> sg]
    ELSE [kind |-> "RuntimeError"]

\* denoise_image (257-267).
denoise_image(img) ==
    gaussian(img, np_divide(img.metadata.mpp, voxel_dimensions(img.metadata)))

\* ---- bounded inputs
MaxPixelSize == 2

AxisLabels == {"x", "y", "z", "c", "t"}

AxesLengths == 0..4

ImageDims == {2, 3}

AxesDescriptors == UNION {[1..n -> AxisLabels] : n \in AxesLengths}

DenoiseInit ==
    /\ dpc = "call"
    /\ \E axes \in AxesDescriptors, nd \in ImageDims,
          xy \in 1..MaxPixelSize, z \in 1..MaxPixelSize :
          channel = [ndim     |-> nd,
                     metadata |-> [axes |-> axes, mpp |-> xy, mppZ |-> z]]
    /\ sigma = <<>> /\ denoised = Null
    /\ CropIdle /\ FilterIdle /\ WshedIdle /\ MainIdle

DenoiseImage ==
    /\ dpc = "call"
    /\ sigma' = np_divide(channel.metadata.mpp,
                          voxel_dimensions(channel.metadata))
    /\ denoised' = denoise_image(channel)
    /\ dpc' = "done"
    /\ UNCHANGED channel
    /\ UNCHANGED <<cropVars, filterVars, wshedVars, mainVars>>

DenoiseNext == DenoiseImage

SpecDenoise == DenoiseInit /\ [][DenoiseNext]_vars

\* ---- claims about denoise_image

\* The labels of the descriptor that name a spatial axis, in its order.
SpatialAxes == SelectSeq(channel.metadata.axes, LAMBDA a : a \in {"x", "y", "z"})

\* The pixel size the metadata gives for an axis.
PixelSizeOf(a) == IF a = "z" THEN channel.metadata.mppZ ELSE channel.metadata.mpp

\* sg[i] is xy_pixel_size divided by the pixel size of axis labels[i].
SigmaIsRatio(sg, labels) ==
    /\ Len(sg) = Len(labels)
    /\ \A i \in 1..Len(labels) :
          /\ sg[i][2] # 0
          /\ sg[i][1] * PixelSizeOf(labels[i]) = channel.metadata.mpp * sg[i][2]

\* C12 as stated: denoise_image fails with a configuration error whenever
\* the axis descriptor holds a label other than 'x', 'y' or 'z', and never
\* goes on with a sigma shorter than the descriptor; with valid labels
\* only, sigma on each axis is xy_pixel_size over that axis's pixel size.
C12_UnknownAxisRejected ==
    dpc = "done" =>
        IF SpatialAxes # channel.metadata.axes
        THEN denoised.kind = "ConfigurationError"
        ELSE SigmaIsRatio(sigma, channel.metadata.axes)

\* What the code does: denoise_image raises no configuration error; a
\* label other than 'x', 'y' or 'z' is passed over, and sigma has one entry
\* for each 'x', 'y' or 'z' of the descriptor, in its order, which is
\* xy_pixel_size over that axis's pixel size.  The image is smoothed with
\* that sigma when the entries are as many as the image's axes, and the
\* gaussian call fails otherwise.
UnknownAxisPassedOver ==
    dpc = "done" =>
        /\ SigmaIsRatio(sigma, SpatialAxes)
        /\ denoised.kind # "ConfigurationError"
        /\ IF Len(SpatialAxes) = channel.ndim
           THEN denoised = [kind |-> "array", ndim |-> channel.ndim,
                            sigma |-> sigma]
           ELSE denoised.kind = "RuntimeError"

\* The descriptor main() sets, 'zyxc', on a volume of three axes whose
\* planes are further apart than its pixels: the channel label is passed
\* over and the volume is smoothed.
ChannelAxisPassedOver ==
    /\ dpc = "done"
    /\ channel.metadata.axes = <<"z", "y", "x", "c">>
    /\ channel.ndim = 3
    /\ channel.metadata.mppZ > channel.metadata.mpp
    /\ denoised.kind = "array"
    /\ Len(sigma) = 3

----------------------------------------------------------------------------
(* main() and the statistics, main.py 25-95, 159-191, 324-457 *)

\* cropping_margin of find_podocytes (351).
cropping_margin == 10

NaN == "NaN"

\* A plausible slip: the offset taken from the window clipped to the image.
centroid_offset_clipped(glomeruli_region, ndim) ==
    [d \in 1..ndim |-> Max2(glomeruli_region.bbox[d] - cropping_margin, 0)]

\* centroid_offset of find_podocytes (352-353).
centroid_offset_of(glomeruli_region, ndim) ==
    [d \in 1..ndim |-> glomeruli_region.bbox[d] - cropping_margin]

\* find_podocytes (350-362).  The podocyte channel is not modelled voxel by
\* voxel: what blob_dog, the watershed and regionprops make of the cropped
\* ROI is given by the decoded series, as the regions of each glomerulus.
find_podocytes(content, glomeruli_region) ==
    [regions         |-> content.pods[glomeruli_region.label],
     centroid_offset |-> centroid_offset_of(glomeruli_region,
                                            Len(content.shape))]

\* The dictionary of lines 441-451 for one podocyte region.
podocyte_contents(pod, offset, vv) ==
    LET real_podocyte_centroid ==
            [d \in 1..Len(pod.centroid) |-> RatAdd(pod.centroid[d], offset[d])]
    IN  [podocyte_label_number      |-> pod.label,
         podocyte_voxel_number      |-> pod.area,
         podocyte_volume            |-> pod.area * vv,
         podocyte_equiv_diam_pixels |-> pod.equivalent_diameter,
         podocyte_centroid_x        |-> real_podocyte_centroid[3],
         podocyte_centroid_y        |-> real_podocyte_centroid[2],
         podocyte_centroid_z        |-> real_podocyte_centroid[1]]

\* A pandas DataFrame, as the sequence of its rows.
DataFrame(rows) == [kind |-> "DataFrame", rows |-> rows]

\* podocyte_statistics (439-457): one row per region, or None.
podocyte_statistics(podocyte_regions, offset, vv) ==
    IF Len(podocyte_regions) > 0
    THEN DataFrame([i \in 1..Len(podocyte_regions) |->
                       podocyte_contents(podocyte_regions[i], offset, vv)])
    ELSE Null

\* A plausible slip: np.sum in the place of np.mean.
SumOfColumn(df, col) ==
    Rat(SumOver(1..Len(df), [i \in 1..Len(df) |-> df[i][col]]), 1)

\* np.mean(df[col]) (415-417).
MeanOfColumn(df, col) ==
    Rat(SumOver(1..Len(df), [i \in 1..Len(df) |-> df[i][col]]), Len(df))

\* Sets columns of every row of a DataFrame: df[col] = value.
WithColumns(df, cols) ==
    [i \in 1..Len(df) |->
        [c \in DOMAIN df[i] \cup DOMAIN cols |->
            IF c \in DOMAIN cols THEN cols[c] ELSE df[i][c]]]

\* podocyte_avg_statistics (415-418).
podocyte_avg_statistics(df) ==
    WithColumns(df,
        [avg_podocyte_voxel_number |-> MeanOfColumn(df, "podocyte_voxel_number"),
         avg_podocyte_volume       |-> MeanOfColumn(df, "podocyte_volume"),
         avg_podocyte_equiv_diam_pixels
                                   |-> MeanOfColumn(df, "podocyte_equiv_diam_pixels")])

\* A plausible slip: the label id of the glomerulus used as its index.
glom_statistics_label_as_index(df, glom, gi, vv) ==
    WithColumns(df,
        [number_of_podocytes         |-> Len(df),
         podocyte_density            |-> Rat(Len(df), glom.filled_area * vv),
         glomeruli_index             |-> glom.label,
         glomeruli_label_number      |-> glom.label,
         glomeruli_voxel_number      |-> glom.filled_area,
         glomeruli_volume            |-> glom.filled_area * vv,
         glomeruli_equiv_diam_pixels |-> glom.equivalent_diameter,
         glomeruli_centroid_x        |-> glom.centroid[3],
         glomeruli_centroid_y        |-> glom.centroid[2],
         glomeruli_centroid_z        |-> glom.centroid[1]])

\* glom_statistics (385-395).
glom_statistics(df, glom, gi, vv) ==
    WithColumns(df,
        [number_of_podocytes         |-> Len(df),
         podocyte_density            |-> Rat(Len(df), glom.filled_area * vv),
         glomeruli_index             |-> gi,
         glomeruli_label_number      |-> glom.label,
         glomeruli_voxel_number      |-> glom.filled_area,
         glomeruli_volume            |-> glom.filled_area * vv,
         glomeruli_equiv_diam_pixels |-> glom.equivalent_diameter,
         glomeruli_centroid_x        |-> glom.centroid[3],
         glomeruli_centroid_y        |-> glom.centroid[2],
         glomeruli_centroid_z        |-> glom.centroid[1]])

\* DataFrame.append(df, ignore_index=True, sort=False): the rows follow; a
\* column the appended rows lack is NaN in them.
ImageColumns == {"image_series_num", "image_series_name", "image_filename"}

df_append(table, df) ==
    table \o [i \in 1..Len(df) |->
                 [c \in DOMAIN df[i] \cup ImageColumns |->
                     IF c \in DOMAIN df[i] THEN df[i][c] ELSE NaN]]

summary_columns ==
    {"image_filename", "image_series_name", "image_series_num",
     "glomeruli_index", "glomeruli_label_number", "glomeruli_voxel_number",
     "glomeruli_volume", "glomeruli_equiv_diam_pixels",
     "glomeruli_centroid_x", "glomeruli_centroid_y", "glomeruli_centroid_z",
     "number_of_podocytes", "avg_podocyte_voxel_number",
     "avg_podocyte_volume", "podocyte_density"}

\* DataFrame.drop_duplicates(): of equal rows the first one stays.
RECURSIVE drop_duplicates(_)
drop_duplicates(rows) ==
    IF rows = <<>> THEN <<>>
    ELSE LET front == drop_duplicates(SubSeq(rows, 1, Len(rows) - 1))
             last  == rows[Len(rows)]
         IN  IF \E i \in 1..Len(front) : front[i] = last
             THEN front ELSE Append(front, last)

\* create_summary_stats (172-191): None for an empty table.
create_summary_stats(dataframe) ==
    IF Len(dataframe) = 0 THEN Null
    ELSE DataFrame(drop_duplicates(
             [i \in 1..Len(dataframe) |->
                 [c \in summary_columns |-> dataframe[i][c]]]))

\* images.metadata.ImageID and ImageName of a series of a file.
ImageID(n) == <<"Image", n>>

ImageName(filename, n) == <<"Series", filename, n>>

\* preprocess_glomeruli (579-582): the connected components of the voxels
\* above Yen's threshold; which voxels those are is given by the series.
preprocess_glomeruli(content) ==
    label([kind  |-> "array",
           shape |-> content.shape,
           data  |-> [p \in IndexSet(content.shape) |-> p \in content.mask]])

\* The diameters given on the command line (32-33), in 1/DiamScale voxel.
min_glom_diameter == EquivDiam(2)

max_glom_diameter == EquivDiam(8)

\* ---- bounded inputs
MaxFiles == 2

SeriesCounts == {1, 2}

GlomShape == <<1, 2, 14>>

\* Three bright blobs of the glomeruli channel: a speck, too small to be a
\* glomerulus, and two glomeruli, the second one far from the origin.
Speck == {<<0, 0, 5>>}

GlomB == {<<0, y, x>> : y \in {0, 1}, x \in {1, 2}}

GlomC == {<<0, y, x>> : y \in {0, 1}, x \in {11, 12, 13}}

\* Podocyte regions as regionprops measures them in a cropped ROI.
OnePod == <<RegionFromVoxels(2, {<<10, 10, 10>>, <<10, 10, 11>>}, 3)>>

TwoPods ==
    <<RegionFromVoxels(2, {<<10, 10, 10>>}, 3),
      RegionFromVoxels(3, {<<10, 11, 11>>, <<11, 11, 11>>, <<12, 11, 11>>}, 3)>>

NoPods == <<>>

\* The series a file may hold: the voxels of the glomeruli channel above
\* threshold, the calibration, and the podocyte regions of each glomerulus
\* (by the label preprocess_glomeruli gives it).
SeriesMenu ==
    {[shape |-> GlomShape, mask |-> {}, mpp |-> 1, mppZ |-> 1,
      pods |-> <<>>],
     [shape |-> GlomShape, mask |-> Speck, mpp |-> 1, mppZ |-> 1,
      pods |-> <<NoPods>>],
     [shape |-> GlomShape, mask |-> GlomB, mpp |-> 1, mppZ |-> 1,
      pods |-> <<OnePod>>],
     [shape |-> GlomShape, mask |-> GlomB \cup Speck \cup GlomC,
      mpp |-> 1, mppZ |-> 2,
      pods |-> <<NoPods, NoPods, TwoPods>>],
     [shape |-> GlomShape, mask |-> GlomB \cup GlomC, mpp |-> 1, mppZ |-> 1,
      pods |-> <<TwoPods, OnePod>>]}

FileNames == [i \in 1..4 |-> <<"file", i>>]

\* The input directory: files that can be decoded or not, each with its
\* number of series.
FileLists ==
    UNION {[1..n -> [readable : BOOLEAN, image_count : SeriesCounts]] :
              n \in 0..MaxFiles}

Init ==
    /\ pc = "file"
    /\ \E fl \in FileLists :
          filelist = [i \in 1..Len(fl) |->
                         [filename    |-> FileNames[i],
                          readable    |-> fl[i].readable,
                          image_count |-> fl[i].image_count]]
    /\ file_i = 1
    /\ im_series_num = 0
    /\ series_content = Null /\ voxel_volume = 0 /\ glom_regions = <<>>
    /\ glom_pos = 0 /\ glom_index = 0 /\ centroid_offset = <<>>
    /\ detailed_stats = <<>> /\ produced_by = <<>> /\ csv_detailed = Null
    /\ summary_stats = Null /\ csv_summary = Null
    /\ total_gloms_counted = 0 /\ fault = "none"
    /\ CropIdle /\ FilterIdle /\ WshedIdle /\ DenoiseIdle

OtherVars == <<cropVars, filterVars, wshedVars, denoiseVars>>

\* Lines 47-49 for a file pims can open.
OpenFile ==
    /\ pc = "file"
    /\ file_i <= Len(filelist)
    /\ filelist[file_i].readable
    /\ im_series_num' = 0
    /\ pc' = "series"
    /\ UNCHANGED <<filelist, file_i, series_content, voxel_volume,
                   glom_regions, glom_pos, glom_index, centroid_offset,
                   detailed_stats, produced_by, csv_detailed, summary_stats,
                   csv_summary, total_gloms_counted, fault>>
    /\ UNCHANGED OtherVars

\* Line 49 for a file pims cannot decode: pims.open raises, and nothing in
\* main() catches it.
OpenFileFails ==
    /\ pc = "file"
    /\ file_i <= Len(filelist)
    /\ ~filelist[file_i].readable
    /\ pc' = "fault"
    /\ fault' = "IOError"
    /\ UNCHANGED <<filelist, file_i, im_series_num, series_content,
                   voxel_volume, glom_regions, glom_pos, glom_index,
                   centroid_offset, detailed_stats, produced_by,
                   csv_detailed, summary_stats, csv_summary,
                   total_gloms_counted>>
    /\ UNCHANGED OtherVars

\* images.bundle_axes = 'zyxc' (54): the axes of the frames pims returns,
\* which it also records as their metadata['axes'].
bundle_axes == <<"z", "y", "x", "c">>

\* images[0][..., channel] (58, 63): one channel of the series, a volume
\* of three axes that keeps the metadata of the frame.
channel_view(content) ==
    [ndim     |-> Len(content.shape),
     metadata |-> [axes |-> bundle_axes,
                   mpp  |-> content.mpp,
                   mppZ |-> content.mppZ]]

\* Lines 50-63: a series is decoded, its glomeruli labelled and filtered,
\* and, when a glomerulus is left, its podocyte channel denoised.
Series ==
    /\ pc = "series"
    /\ \E content \in SeriesMenu :
          /\ series_content' = content
          /\ voxel_volume' = content.mpp * content.mpp * content.mppZ
          /\ glom_regions' = filter_by_size(preprocess_glomeruli(content),
                                            min_glom_diameter,
                                            max_glom_diameter)
          /\ fault' = IF /\ Len(glom_regions') > 0
                         /\ denoise_image(channel_view(content)).kind # "array"
                      THEN "RuntimeError" ELSE fault
    /\ glom_index' = 0
    /\ glom_pos' = 1
    /\ pc' = IF fault' # "none" THEN "fault"
             ELSE IF Len(glom_regions') > 0 THEN "glom" ELSE "stamp"
    /\ UNCHANGED <<filelist, file_i, im_series_num, centroid_offset,
                   detailed_stats, produced_by, csv_detailed, summary_stats,
                   csv_summary, total_gloms_counted>>
    /\ UNCHANGED OtherVars

\* A plausible slip: the test of line 71 left out.
skip_glomerulus_never(df) == FALSE

\* "if df is None: continue" (71).
skip_glomerulus(df) == df = Null

\* Lines 64-81: one glomerulus of the series.  Without the test of line 71,
\* podocyte_avg_statistics would subscript None, a TypeError.
Glom ==
    /\ pc = "glom"
    /\ LET glom  == glom_regions[glom_pos]
           found == find_podocytes(series_content, glom)
           df    == podocyte_statistics(found.regions, found.centroid_offset,
                                        voxel_volume)
       IN  /\ centroid_offset' = found.centroid_offset
           /\ IF skip_glomerulus(df)
              THEN UNCHANGED <<detailed_stats, produced_by, glom_index, fault>>
              ELSE IF df = Null
              THEN /\ fault' = "TypeError"
                   /\ UNCHANGED <<detailed_stats, produced_by, glom_index>>
              ELSE /\ UNCHANGED fault
                   /\ detailed_stats' =
                          df_append(detailed_stats,
                                 glom_statistics(
                                     podocyte_avg_statistics(df.rows),
                                     glom, glom_index, voxel_volume))
                   /\ produced_by' =
                          produced_by \o
                          [i \in 1..Len(df.rows) |->
                              [filename  |-> filelist[file_i].filename,
                               file_pos  |-> file_i,
                               series    |-> im_series_num,
                               voxel_volume |-> voxel_volume,
                               glom      |-> glom,
                               pod       |-> found.regions[i]]]
                   /\ glom_index' = glom_index + 1
    /\ glom_pos' = glom_pos + 1
    /\ pc' = IF fault' # "none" THEN "fault"
             ELSE IF glom_pos < Len(glom_regions) THEN "glom" ELSE "stamp"
    /\ UNCHANGED <<filelist, file_i, im_series_num, series_content,
                   voxel_volume, glom_regions, csv_detailed, summary_stats,
                   csv_summary, total_gloms_counted>>
    /\ UNCHANGED OtherVars

\* A plausible slip: the frame of the last glomerulus written instead of
\* the accumulated table.
to_csv_last_frame(frame) ==
    DataFrame(SelectSeq(frame,
        LAMBDA r : /\ r.glomeruli_index = frame[Len(frame)].glomeruli_index
                   /\ r.image_filename = frame[Len(frame)].image_filename))

\* detailed_stats.to_csv(output_filename_detailed_stats) (87): the file is
\* replaced by the whole table.
to_csv(frame) == DataFrame(frame)

\* Lines 83-87, and the step of the loops of lines 50 and 47: the image
\* columns are set on the whole table, and the table is written out.
Stamp ==
    /\ pc = "stamp"
    /\ detailed_stats' =
           WithColumns(detailed_stats,
               [image_series_num  |-> ImageID(im_series_num),
                image_series_name |-> ImageName(filelist[file_i].filename,
                                                im_series_num),
                image_filename    |-> filelist[file_i].filename])
    /\ csv_detailed' = to_csv(detailed_stats')
    /\ IF im_series_num + 1 < filelist[file_i].image_count
       THEN /\ im_series_num' = im_series_num + 1
            /\ pc' = "series"
            /\ UNCHANGED file_i
       ELSE /\ file_i' = file_i + 1
            /\ pc' = "file"
            /\ UNCHANGED im_series_num
    /\ UNCHANGED <<filelist, series_content, voxel_volume, glom_regions,
                   glom_pos, glom_index, centroid_offset, produced_by,
                   summary_stats, csv_summary, total_gloms_counted, fault>>
    /\ UNCHANGED OtherVars

\* Lines 88-95, after the last file.  create_summary_stats returns None for
\* an empty table, and None has no to_csv.
Summarize ==
    /\ pc = "file"
    /\ file_i > Len(filelist)
    /\ summary_stats' = create_summary_stats(detailed_stats)
    /\ IF summary_stats' = Null
       THEN /\ pc' = "fault"
            /\ fault' = "AttributeError"
            /\ UNCHANGED <<csv_summary, total_gloms_counted>>
       ELSE /\ csv_summary' = summary_stats'
            /\ total_gloms_counted' = Len(summary_stats'.rows)
            /\ pc' = "done"
            /\ UNCHANGED fault
    /\ UNCHANGED <<filelist, file_i, im_series_num, series_content,
                   voxel_volume, glom_regions, glom_pos, glom_index,
                   centroid_offset, detailed_stats, produced_by,
                   csv_detailed>>
    /\ UNCHANGED OtherVars

Next == OpenFile \/ OpenFileFails \/ Series \/ Glom \/ Stamp \/ Summarize

Spec == Init /\ [][Next]_vars

\* ---- claims about main()

Rows == 1..Len(detailed_stats)

\* C3: the offset of a glomerulus is bbox_min - 10 on every axis, and each
\* of its podocyte rows reports the region's centroid in the ROI plus that
\* offset: z, y, x from axes 0, 1, 2.
C3_GlobalCentroid ==
    /\ (pc \in {"glom", "stamp"} /\ glom_pos > 1) =>
           centroid_offset =
               [d \in 1..3 |-> glom_regions[glom_pos - 1].bbox[d] - 10]
    /\ Len(produced_by) = Len(detailed_stats)
    /\ \A i \in Rows :
          LET row   == detailed_stats[i]
              local == produced_by[i].pod.centroid
              o     == [d \in 1..3 |-> produced_by[i].glom.bbox[d] - 10]
              sum(g, d) == /\ g[2] # 0
                           /\ g[1] * local[d][2]
                                  = (local[d][1] + o[d] * local[d][2]) * g[2]
          IN  /\ sum(row.podocyte_centroid_z, 1)
              /\ sum(row.podocyte_centroid_y, 2)
              /\ sum(row.podocyte_centroid_x, 3)

\* Rows of a glomerulus whose offset is negative on every axis and of one
\* whose offset is positive on the last axis, with centroids between voxels.
C3_Witness ==
    \E i, j \in Rows :
        /\ produced_by[i].glom.bbox[3] - 10 < 0
        /\ produced_by[j].glom.bbox[3] - 10 > 0
        /\ produced_by[i].pod.centroid[3][2] > 1
        /\ produced_by[j].pod.centroid[3][2] > 1

\* C4: the summary table has as many rows as the detailed table has
\* distinct (image_filename, image_series_num, glomeruli_index), and no two
\* of its rows are equal.
C4_SummaryRowCount ==
    pc = "done" =>
        /\ Len(summary_stats.rows) =
               Cardinality({<<detailed_stats[i].image_filename,
                              detailed_stats[i].image_series_num,
                              detailed_stats[i].glomeruli_index>> : i \in Rows})
        /\ \A i, j \in 1..Len(summary_stats.rows) :
              i # j => summary_stats.rows[i] # summary_stats.rows[j]

\* C5: at the end of the run every row of the detailed table carries the
\* file name, series number and series name of the series that produced it.
C5_RowIdentifiers ==
    pc = "done" =>
        \A i \in Rows :
            /\ detailed_stats[i].image_filename = produced_by[i].filename
            /\ detailed_stats[i].image_series_num
                   = ImageID(produced_by[i].series)
            /\ detailed_stats[i].image_series_name
                   = ImageName(produced_by[i].filename, produced_by[i].series)

\* C9: a series without a glomerulus in range appends no row and the run
\* goes on to the next series; a glomerulus without a podocyte region
\* appends no row and the run goes on to the next glomerulus; neither
\* raises a fault nor removes a row.
C9_AbsenceIsNotAFault ==
    [][/\ (pc = "series" /\ glom_regions' = <<>>) =>
              /\ detailed_stats' = detailed_stats
              /\ pc' = "stamp"
              /\ fault' = "none"
       /\ (pc = "stamp" /\ glom_regions = <<>>) =>
              /\ Len(detailed_stats') = Len(detailed_stats)
              /\ fault' = "none"
              /\ IF im_series_num + 1 < filelist[file_i].image_count
                 THEN pc' = "series" /\ im_series_num' = im_series_num + 1
                 ELSE pc' = "file" /\ file_i' = file_i + 1
       /\ (/\ pc = "glom"
           /\ series_content.pods[glom_regions[glom_pos].label] = <<>>) =>
              /\ detailed_stats' = detailed_stats
              /\ fault' = "none"
              /\ glom_pos' = glom_pos + 1
              /\ pc' = IF glom_pos < Len(glom_regions) THEN "glom" ELSE "stamp"
      ]_vars

\* A series without glomeruli has just been passed, after rows were
\* accumulated, among them rows of a glomerulus (label 3, index 0) whose
\* predecessor in the series had no podocytes.
C9_Witness ==
    /\ pc \in {"series", "file"}
    /\ glom_regions = <<>>
    /\ series_content # Null
    /\ fault = "none"
    /\ \E i \in Rows :
          /\ detailed_stats[i].glomeruli_label_number = 3
          /\ detailed_stats[i].glomeruli_index = 0

\* C10: a file that cannot be decoded is skipped: when the run is over,
\* every file of the list that can be decoded has been processed.
C10_UndecodableSkipped ==
    pc \in {"done", "fault"} =>
        \A k \in 1..Len(filelist) : filelist[k].readable => k < file_i

\* The rows produced by the series that had finished (their statistics
\* written at line 87) before the position the loops are at.
CompletedRows ==
    {i \in 1..Len(produced_by) :
        \/ produced_by[i].file_pos < file_i
        \/ /\ produced_by[i].file_pos = file_i
           /\ pc \in {"series", "glom", "stamp", "fault"}
           /\ produced_by[i].series < im_series_num}

\* The series that had finished before the position the loops are at.
CompletedSeries ==
    UNION {{<<k, n>> : n \in {m \in 0..(filelist[k].image_count - 1) :
                                 \/ k < file_i
                                 \/ k = file_i /\ pc # "file"
                                               /\ m < im_series_num}} :
              k \in {f \in 1..Len(filelist) : filelist[f].readable}}

\* C11: whenever a series has finished, the detailed-statistics file holds
\* the table of all rows produced by the series finished so far, of this
\* and of earlier files, one row per produced row and in the order
\* produced; the rows of a series still being processed are not in it
\* yet, and a fault in a later series or file leaves the file as the last
\* finished series wrote it.
C11_DetailedStatsPersisted ==
    /\ (CompletedSeries = {}) = (csv_detailed = Null)
    /\ csv_detailed # Null =>
          /\ DOMAIN csv_detailed.rows = CompletedRows
          /\ \A i \in CompletedRows :
                /\ csv_detailed.rows[i] = detailed_stats[i]
                /\ csv_detailed.rows[i].podocyte_label_number
                       = produced_by[i].pod.label
                /\ csv_detailed.rows[i].glomeruli_label_number
                       = produced_by[i].glom.label

\* The run has faulted on a file, with the rows of two finished series of
\* an earlier file on disk.
C11_Witness ==
    /\ pc = "fault"
    /\ fault = "IOError"
    /\ csv_detailed # Null
    /\ \E i, j \in DOMAIN csv_detailed.rows :
          produced_by[i].series # produced_by[j].series

\* The series a row was produced by: the file's position and the series
\* number.
SeriesOf(i) == <<produced_by[i].file_pos, produced_by[i].series>>

\* The label ids of the glomeruli of row i's series that have rows.
ContributingLabels(i) ==
    {produced_by[j].glom.label : j \in {r \in Rows : SeriesOf(r) = SeriesOf(i)}}

\* C13: a row's glomeruli_index is the number of glomeruli of its own
\* series with a smaller label id that have rows, so that the indices of a
\* series are 0..k-1 for its k glomeruli with podocytes, in ascending
\* label order, whatever earlier series did and whichever glomeruli were
\* passed over; its glomeruli_label_number is the glomerulus's label id;
\* rows of a series follow each other in ascending label order, and while
\* a series is processed the counter is the number of its glomeruli that
\* have rows so far.
C13_GlomeruliIndex ==
    /\ Len(produced_by) = Len(detailed_stats)
    /\ \A i \in Rows :
          /\ detailed_stats[i].glomeruli_index =
                 Cardinality({l \in ContributingLabels(i) :
                                 l < produced_by[i].glom.label})
          /\ detailed_stats[i].glomeruli_label_number
                 = produced_by[i].glom.label
          /\ \A j \in Rows :
                (i < j /\ SeriesOf(i) = SeriesOf(j)) =>
                    produced_by[i].glom.label <= produced_by[j].glom.label
    /\ pc \in {"glom", "stamp"} =>
          glom_index =
              Cardinality({produced_by[r].glom.label :
                              r \in {q \in Rows :
                                         SeriesOf(q) = <<file_i, im_series_num>>}})

\* A series whose glomeruli 1 and 2 got the indices 0 and 1, followed by
\* a series whose glomerulus 3 got index 0, glomerulus 1 having had no
\* podocytes.
C13_Witness ==
    \E i, j, k \in Rows :
        /\ i < j /\ j < k
        /\ SeriesOf(i) = SeriesOf(j) /\ SeriesOf(j) # SeriesOf(k)
        /\ detailed_stats[i].glomeruli_label_number = 1
        /\ detailed_stats[i].glomeruli_index = 0
        /\ detailed_stats[j].glomeruli_label_number = 2
        /\ detailed_stats[j].glomeruli_index = 1
        /\ detailed_stats[k].glomeruli_label_number = 3
        /\ detailed_stats[k].glomeruli_index = 0

\* The rows the glomerulus of row i contributed.
RowsOfGlom(i) ==
    {j \in Rows : /\ SeriesOf(j) = SeriesOf(i)
                  /\ produced_by[j].glom.label = produced_by[i].glom.label}

\* The rational q is total / n.
IsMean(q, total, n) == q[2] # 0 /\ q[1] * n = total * q[2]

\* C14: in every state of the run, however many glomeruli, series and
\* files have been appended since, each row carries as number_of_podocytes
\* the number of rows its glomerulus contributed, as podocyte_density that
\* number over (filled voxel count of the glomerulus * voxel volume of its
\* series), and as avg_podocyte_voxel_number, avg_podocyte_volume and
\* avg_podocyte_equiv_diam_pixels the means of podocyte_voxel_number,
\* podocyte_volume and podocyte_equiv_diam_pixels over exactly those rows;
\* all rows of a glomerulus carry the same five values.
C14_GlomerulusAggregates ==
    \A i \in Rows :
        LET g   == RowsOfGlom(i)
            n   == Cardinality(g)
            row == detailed_stats[i]
            total(col) == SumOver(g, [j \in g |-> detailed_stats[j][col]])
        IN  /\ row.number_of_podocytes = n
            /\ IsMean(row.podocyte_density, n,
                      produced_by[i].glom.filled_area
                          * produced_by[i].voxel_volume)
            /\ IsMean(row.avg_podocyte_voxel_number,
                      total("podocyte_voxel_number"), n)
            /\ IsMean(row.avg_podocyte_volume, total("podocyte_volume"), n)
            /\ IsMean(row.avg_podocyte_equiv_diam_pixels,
                      total("podocyte_equiv_diam_pixels"), n)
            /\ \A j \in g :
                  \A c \in {"number_of_podocytes", "podocyte_density",
                             "avg_podocyte_voxel_number", "avg_podocyte_volume",
                             "avg_podocyte_equiv_diam_pixels"} :
                      detailed_stats[j][c] = row[c]

\* A glomerulus with two podocytes of different sizes, in a series whose
\* voxel volume is not 1, with rows of a later series appended after it.
C14_Witness ==
    \E i, j, k \in Rows :
        /\ i # j /\ j \in RowsOfGlom(i) /\ j < k
        /\ SeriesOf(k) # SeriesOf(i)
        /\ produced_by[i].voxel_volume > 1
        /\ detailed_stats[i].podocyte_voxel_number
               # detailed_stats[j].podocyte_voxel_number
        /\ detailed_stats[i].number_of_podocytes = 2

\* C15: a run whose series yield no podocyte row, the run over no file
\* among them, gets through the summary step without a fault: an empty
\* summary is produced and written, and the number of glomeruli logged is
\* 0.
C15_EmptyRunCompletes ==
    (/\ pc \in {"done", "fault"}
     /\ file_i > Len(filelist)
     /\ detailed_stats = <<>>) =>
        /\ pc = "done"
        /\ fault = "none"
        /\ summary_stats = DataFrame(<<>>)
        /\ csv_summary = summary_stats
        /\ total_gloms_counted = 0

====
